---- MODULE Spec2Model ----
(***************************************************************************)
(* The book recommendation pipeline of src/aladin_reco/app.py:             *)
(*   get_book_detail, search_books_by_title, get_gemini_recommendation,    *)
(*   parse_recommended_book_title, display_recommendation_card (rationale  *)
(*   extraction) and run_recommendation_workflow.                          *)
(*                                                                         *)
(* A Python str is a sequence of characters; a character is a TLA+ string. *)
(* The Hangul syllables of the source are written in romanised form, one   *)
(* TLA+ string per syllable ("chu" "cheon" " " "do" "seo" ":" is the       *)
(* six-character title marker of app.py:222).                              *)
(* An Optional value is a sequence of length 0 (None) or 1 (the value).    *)
(***************************************************************************)
EXTENDS Integers, Sequences, FiniteSets, TLC

VARIABLES
    pc,                \* position of the run
    user_query,        \* argument of run_recommendation_workflow
    items_left,        \* items of the search response not yet iterated (app.py:158)
    book_list,         \* accumulator of search_books_by_title (app.py:157)
    found_books,       \* app.py:293
    gemini_result,     \* app.py:300, Optional text
    recommended_title, \* app.py:301, Optional text
    recommended_book,  \* app.py:305, Optional book
    matched_index,     \* index in found_books at which the loop of app.py:307 broke (0: none)
    outcome,           \* what the run showed the user, or the exception that escaped
    exception,         \* the exception raised in the run ("none" when none)
    error_message,     \* text of the caught exception shown by app.py:324
    shown_text,        \* the rationale (Resolved), raw text (Unmatched) or query (NoResults) shown
    search_calls,      \* requests.get calls on the search endpoint
    lookup_calls,      \* get_book_detail calls
    gemini_calls,      \* generate_content calls
    parse_calls,       \* parse_recommended_book_title calls
    match_calls,       \* executions of the matching step app.py:305-310
    lookup_response,   \* the lookup response handed to the last get_book_detail call
    details,           \* what the last get_book_detail call did
    search_status,     \* what the search request did ("none" before it)
    gemini_status      \* what the generative service did ("none" before it)

vars == <<pc, user_query, items_left, book_list, found_books, gemini_result,
          recommended_title, recommended_book, matched_index, outcome, exception,
          error_message, shown_text, search_calls, lookup_calls, gemini_calls,
          parse_calls, match_calls, lookup_response, details, search_status,
          gemini_status>>

-----------------------------------------------------------------------------
(* Bounds of the model *)

\* most items in one search response (the provider caps it at max_results)
MaxItems == 2
\* most tokens in a text handed to the parser on its own
MaxTokens == 4

-----------------------------------------------------------------------------
(* Python values *)

None == <<>>
Some(x) == <<x>>
Val(o) == o[1]

\* truthiness of an Optional[str]: None and "" are falsy
Truthy(o) == o # <<>> /\ o[1] # <<>>

SetMin(S) == CHOOSE x \in S : \A y \in S : x <= y
SetMax(S) == CHOOSE x \in S : \A y \in S : x >= y

\* str.isspace characters the texts of the model may hold
Whitespace == {" ", "\t", "\n", "\r"}
\* line boundaries of str.splitlines the texts of the model may hold
LineBreaks == {"\n", "\r"}

\* s.startswith(p)
StartsWith(s, p) == Len(s) >= Len(p) /\ SubSeq(s, 1, Len(p)) = p

\* p occurs in s at index i
OccursAt(s, p, i) == i + Len(p) - 1 <= Len(s) /\ SubSeq(s, i, i + Len(p) - 1) = p

\* sub in s
Contains(sub, s) == \E i \in 1..(Len(s) - Len(sub) + 1) : OccursAt(s, sub, i)

RECURSIVE ReplaceFrom(_, _, _, _)
ReplaceFrom(s, old, new, i) ==
    IF i > Len(s) THEN <<>>
    ELSE IF OccursAt(s, old, i) THEN new \o ReplaceFrom(s, old, new, i + Len(old))
    ELSE <<s[i]>> \o ReplaceFrom(s, old, new, i + 1)

\* s.replace(old, new), old non-empty: every non-overlapping occurrence, left to right
Replace(s, old, new) == ReplaceFrom(s, old, new, 1)

\* s.strip()
Strip(s) ==
    LET keep == {i \in 1..Len(s) : s[i] \notin Whitespace}
    IN  IF keep = {} THEN <<>> ELSE SubSeq(s, SetMin(keep), SetMax(keep))

RECURSIVE SplitFrom(_, _, _)
SplitFrom(s, i, cur) ==
    IF i > Len(s) THEN (IF cur = <<>> THEN <<>> ELSE <<cur>>)
    ELSE IF s[i] = "\r" /\ i < Len(s) /\ s[i + 1] = "\n"
         THEN <<cur>> \o SplitFrom(s, i + 2, <<>>)
    ELSE IF s[i] \in LineBreaks THEN <<cur>> \o SplitFrom(s, i + 1, <<>>)
    ELSE SplitFrom(s, i + 1, Append(cur, s[i]))

\* s.splitlines(): line breaks removed, no empty last line after a final break
SplitLines(s) == SplitFrom(s, 1, <<>>)

RECURSIVE Join(_, _)
\* sep.join(lines)
Join(lines, sep) ==
    IF lines = <<>> THEN <<>>
    ELSE IF Len(lines) = 1 THEN lines[1]
    ELSE lines[1] \o sep \o Join(Tail(lines), sep)

RECURSIVE Flatten(_)
Flatten(parts) == IF parts = <<>> THEN <<>> ELSE parts[1] \o Flatten(Tail(parts))

-----------------------------------------------------------------------------
(* Numbers: float(text), int(text) and the formatting of an int *)

Digits == <<"0", "1", "2", "3", "4", "5", "6", "7", "8", "9">>
DigitSet == {Digits[i] : i \in 1..Len(Digits)}
DigitVal(c) == (CHOOSE i \in 1..Len(Digits) : Digits[i] = c) - 1

\* the literal without its sign
Unsigned(s) == IF s # <<>> /\ s[1] \in {"+", "-"} THEN Tail(s) ELSE s
IsNegative(s) == s # <<>> /\ s[1] = "-"

\* int(text) does not raise ValueError: optional sign and digits, whitespace around
IsIntLiteral(text) ==
    LET u == Unsigned(Strip(text))
    IN  u # <<>> /\ \A i \in 1..Len(u) : u[i] \in DigitSet

\* float(text) does not raise ValueError: optional sign, digits with at most one
\* point and at least one digit, whitespace around (no exponent, inf or nan among
\* the texts of the model)
IsFloatLiteral(text) ==
    LET u == Unsigned(Strip(text))
    IN  /\ \A i \in 1..Len(u) : u[i] \in DigitSet \cup {"."}
        /\ Cardinality({i \in 1..Len(u) : u[i] = "."}) <= 1
        /\ \E i \in 1..Len(u) : u[i] \in DigitSet

\* float(text) > 0, for a text float() accepts
FloatPositive(text) ==
    LET s == Strip(text)
        u == Unsigned(s)
    IN  ~IsNegative(s) /\ \E i \in 1..Len(u) : u[i] \in DigitSet /\ u[i] # "0"

RECURSIVE DigitsValue(_)
DigitsValue(u) ==
    IF u = <<>> THEN 0
    ELSE 10 * DigitsValue(SubSeq(u, 1, Len(u) - 1)) + DigitVal(u[Len(u)])

\* int(text), for a text int() accepts
IntValue(text) ==
    LET s == Strip(text)
    IN  IF IsNegative(s) THEN 0 - DigitsValue(Unsigned(s)) ELSE DigitsValue(Unsigned(s))

RECURSIVE NatToStr(_)
NatToStr(n) == IF n < 10 THEN <<Digits[n + 1]>> ELSE NatToStr(n \div 10) \o <<Digits[(n % 10) + 1]>>

\* str(n) of an int
IntToStr(n) == IF n < 0 THEN <<"-">> \o NatToStr(0 - n) ELSE NatToStr(n)

-----------------------------------------------------------------------------
(* XML elements and the lookup response (app.py:96-98, 104-113) *)

\* Element.find() found nothing
NoElem == [present |-> FALSE, text |-> None]
\* an element; its text is None when the element is empty
Elem(text) == [present |-> TRUE, text |-> text]
Text(s) == Elem(Some(s))
EmptyElem == Elem(None)

\* "byeol jeom / jeong bo / eop eum": the no-rating sentinel of app.py:103
SENTINEL == <<"byeol", "jeom", " ", "jeong", "bo", " ", "eop", "eum">>

\* what a call did: returned a value, or raised
Returned(v) == [raised |-> "none", value |-> v]
Raised(e) == [raised |-> e, value |-> None]
\* no call was made
NotCalled == [raised |-> "not_called", value |-> None]

\* the outcome of the lookup request: the request failed, or the document it returned
LookupFailure(status) ==
    [status |-> status, item |-> FALSE, subInfo |-> FALSE, ratingInfo |-> FALSE,
     ratingScore |-> NoElem, customerReviewRank |-> NoElem]
LookupNoItem == [LookupFailure("ok") EXCEPT !.status = "ok"]
LookupItem(subInfo, ratingInfo, score, rank) ==
    [status |-> "ok", item |-> TRUE, subInfo |-> subInfo, ratingInfo |-> ratingInfo,
     ratingScore |-> score, customerReviewRank |-> rank]
NoLookup == LookupFailure("not_requested")

\* requests.get raising, raise_for_status raising, ET.fromstring raising
RequestFailures == {"network_error", "http_error", "malformed_xml"}

\* texts of a ratingScore element
ScoreTexts == { <<"9", ".", "2">>, <<"0">>, <<"0", ".", "0">>, <<"N", "/", "A">>,
                <<"-", "1">>, <<" ", "8", ".", "5">> }
\* texts of a customerReviewRank element
RankTexts == { <<"8">>, <<"0">>, <<"1", "0">>, <<"0", "8">>, <<"9", ".", "5">>,
               <<"-", "3">> }

ScoreElems == {NoElem, EmptyElem} \cup {Text(t) : t \in ScoreTexts}
RankElems == {NoElem, EmptyElem} \cup {Text(t) : t \in RankTexts}

\* every lookup outcome of the model
LookupResponses ==
    {LookupFailure(f) : f \in RequestFailures}
    \cup {LookupNoItem}
    \cup {LookupItem(FALSE, FALSE, NoElem, rank) : rank \in RankElems}
    \cup {LookupItem(TRUE, FALSE, NoElem, rank) : rank \in RankElems}
    \cup {LookupItem(TRUE, TRUE, score, rank) : score \in ScoreElems, rank \in RankElems}

-----------------------------------------------------------------------------
(* get_book_detail (app.py:73-124) *)

\* float(score_elem.text) >= 0 in place of > 0
ScoreIsNotNegative(text) == ~IsNegative(Strip(text))

\* float(score_elem.text) > 0 of app.py:109
ScoreIsPositive(text) == FloatPositive(text)

\* int(review_rank_elem.text) > 0 of app.py:114
RankIsPositive(text) == IntValue(text) > 0

\* app.py:104-109 up to "score_elem.text": float() is about to be called
ScoreRead(r) ==
    r.subInfo /\ r.ratingInfo /\ r.ratingScore.present /\ Truthy(r.ratingScore.text)

\* app.py:113-114 up to "review_rank_elem.text": int() is about to be called
RankRead(r) == r.customerReviewRank.present /\ Truthy(r.customerReviewRank.text)

\* f"{score_elem.text} / 10.0"
FormatScore(text) == text \o <<" ", "/", " ", "1", "0", ".", "0">>
\* f"{int(review_rank_elem.text)} / 10"
FormatRank(text) == IntToStr(IntValue(text)) \o <<" ", "/", " ", "1", "0">>

\* app.py:113-117
RankOrSentinel(r) ==
    IF RankRead(r)
    THEN LET text == Val(r.customerReviewRank.text)
         IN  IF ~IsIntLiteral(text) THEN Raised("ValueError")
             ELSE IF RankIsPositive(text) THEN Returned(Some(FormatRank(text)))
             ELSE Returned(Some(SENTINEL))
    ELSE Returned(Some(SENTINEL))

\* The value is Some(star_rating) for {'star_rating': star_rating} and None for None.
\* Only RequestException and ET.ParseError are caught (app.py:119-124).
get_book_detail(r) ==
    IF r.status \in RequestFailures THEN Returned(None)
    ELSE IF ~r.item THEN Returned(None)
    ELSE IF ScoreRead(r)
         THEN LET text == Val(r.ratingScore.text)
              IN  IF ~IsFloatLiteral(text) THEN Raised("ValueError")
                  ELSE IF ScoreIsPositive(text) THEN Returned(Some(FormatScore(text)))
                  ELSE RankOrSentinel(r)
    ELSE RankOrSentinel(r)

-----------------------------------------------------------------------------
(* search_books_by_title (app.py:126-181): one item of the response *)

\* "je mok / eop eum", "jeo ja / eop eum", "seol myeong / eop eum": app.py:167-169
NO_TITLE == <<"je", "mok", " ", "eop", "eum">>
NO_AUTHOR == <<"jeo", "ja", " ", "eop", "eum">>
NO_DESCRIPTION == <<"seol", "myeong", " ", "eop", "eum">>

\* item.find(name, ns).text if item.find(name, ns) is not None else default
TextOr(elem, default) == IF elem.present THEN elem.text ELSE default

\* the lookup app.py:161-162 makes for an item: none without a truthy isbn13
ItemDetails(item, lk) ==
    IF Truthy(TextOr(item.isbn13, None)) THEN get_book_detail(lk) ELSE NotCalled

\* no sentinel when the lookup gave nothing
StarRatingOrEmpty(det) ==
    IF det.raised = "none" /\ det.value # None THEN Val(det.value) ELSE <<>>

\* app.py:160-164: the rating given to the candidate for what the lookup returned
StarRatingOf(det) ==
    IF det.raised = "none" /\ det.value # None THEN Val(det.value) ELSE SENTINEL

\* The loop body app.py:159-172 for one item and the outcome of its lookup request:
\* the candidate appended, or the exception raised. item.find('cover', ns).text is
\* read without a test for None (app.py:170).
search_item(item, lk) ==
    LET det == ItemDetails(item, lk)
    IN  IF det.raised \notin {"none", "not_called"} THEN Raised(det.raised)
        ELSE IF ~item.cover.present THEN Raised("AttributeError")
        ELSE Returned(Some(
                [title |-> TextOr(item.title, Some(NO_TITLE)),
                 author |-> TextOr(item.author, Some(NO_AUTHOR)),
                 description |-> TextOr(item.description, Some(NO_DESCRIPTION)),
                 cover_url |-> item.cover.text,
                 star_rating |-> StarRatingOf(det)]))

-----------------------------------------------------------------------------
(* parse_recommended_book_title (app.py:218-226) *)

\* "chu cheon / do seo :" of app.py:222-223
TITLE_MARKER == <<"chu", "cheon", " ", "do", "seo", ":">>
\* "chu cheon / i yu :" of app.py:278
REASON_MARKER == <<"chu", "cheon", " ", "i", "yu", ":">>

\* indexes of the lines that start with the title marker
MarkerLines(lines) == {i \in 1..Len(lines) : StartsWith(lines[i], TITLE_MARKER)}

\* app.py:223: line.replace(marker, "").strip()
TitleOfLine(line) == Strip(Replace(line, TITLE_MARKER, <<>>))

parse_recommended_book_title(gemini_response) ==
    LET lines == SplitLines(gemini_response)
    IN  IF MarkerLines(lines) = {} THEN None
        ELSE Some(TitleOfLine(lines[SetMin(MarkerLines(lines))]))

-----------------------------------------------------------------------------
(* the matching step (app.py:305-310) and the rationale (app.py:278) *)

\* recommended_title in book['title'] or book['title'] in recommended_title
Qualifies(title, book) ==
    Contains(title, Val(book.title)) \/ Contains(Val(book.title), title)

RECURSIVE ScanFrom(_, _, _)
\* The for loop of app.py:307-310 from index i on: the index it breaks at (0 when it
\* runs to the end), or TypeError when "in" meets a title that is None.
ScanFrom(title, books, i) ==
    IF i > Len(books) THEN Returned(Some(0))
    ELSE IF books[i].title = None THEN Raised("TypeError")
    ELSE IF Qualifies(title, books[i]) THEN Returned(Some(i))
    ELSE ScanFrom(title, books, i + 1)

\* the loop without its break: the last qualifying candidate wins
match_book_last(title, books) ==
    IF Truthy(title)
    THEN LET q == {i \in 1..Len(books) :
                      books[i].title # None /\ Qualifies(Val(title), books[i])}
         IN  Returned(Some(IF q = {} THEN 0 ELSE SetMax(q)))
    ELSE Returned(Some(0))

\* app.py:305-310
match_book(title, books) ==
    IF Truthy(title) THEN ScanFrom(Val(title), books, 1) ELSE Returned(Some(0))

\* the lines of the raw response that display_recommendation_card keeps (app.py:278)
KeptLines(lines) == IF lines = <<>> THEN <<>> ELSE Tail(lines)

\* "\n".join(gemini_response.splitlines()[1:]).replace(reason marker, '').strip()
Rationale(gemini_response) ==
    Strip(Replace(Join(KeptLines(SplitLines(gemini_response)), <<"\n">>), REASON_MARKER, <<>>))

-----------------------------------------------------------------------------
(* Inputs of the model *)

A == <<"A">>
AB == <<"A", "B">>
ISBN == <<"9", "7", "8">>
URL == <<"u", "r", "l">>
AUTHOR == <<"a", "u">>
DESCRIPTION == <<"d", "e">>

\* the queries a user submits ("sa rang", "u ju"); main() passes no empty query on
Queries == { <<"sa", "rang">>, <<"u", "ju">> }

SearchItem(isbn13, title, author, description, cover) ==
    [isbn13 |-> isbn13, title |-> title, author |-> author,
     description |-> description, cover |-> cover]

\* items of a search response in a whole run: the title and cover children vary
WorkflowItems ==
    {SearchItem(i, t, Text(AUTHOR), Text(DESCRIPTION), c) :
        i \in {NoElem, Text(ISBN)},
        t \in {NoElem, EmptyElem, Text(A), Text(AB)},
        c \in {NoElem, Text(URL)}}

\* items of a search response when the search runs alone: every child but the
\* title is present, absent or empty
CatalogItems ==
    {SearchItem(i, Text(A), a, d, c) :
        i \in {NoElem, EmptyElem, Text(ISBN)},
        a \in {NoElem, EmptyElem, Text(AUTHOR)},
        d \in {NoElem, EmptyElem, Text(DESCRIPTION)},
        c \in {NoElem, EmptyElem, Text(URL)}}

\* lookup outcomes in a whole run: a failed request, a score, a rank, a score
\* float() rejects
WorkflowLookups ==
    {LookupFailure("network_error"),
     LookupItem(TRUE, TRUE, Text(<<"9", ".", "2">>), Text(<<"8">>)),
     LookupItem(TRUE, TRUE, Text(<<"0">>), Text(<<"8">>)),
     LookupItem(TRUE, TRUE, Text(<<"N", "/", "A">>), NoElem)}

\* lookup outcomes when the search runs alone: a failed request, a document
\* without item, a score, a score float() rejects
CatalogLookups ==
    {LookupFailure("network_error"),
     LookupNoItem,
     LookupItem(TRUE, TRUE, Text(<<"9", ".", "2">>), Text(<<"8">>)),
     LookupItem(TRUE, TRUE, Text(<<"N", "/", "A">>), NoElem)}

\* str(e) of the exception a failed request raised
CauseOf(failure) ==
    CASE failure = "network_error" -> "ConnectionError"
      [] failure = "http_error" -> "HTTPError"
      [] failure = "malformed_xml" -> "ParseError"
      [] failure = "api_error" -> "GoogleAPIError"
      [] failure = "no_text" -> "ValueError"

TitleLine(title) == TITLE_MARKER \o <<" ">> \o title
ReasonLine == REASON_MARKER \o <<" ", "r">>
NL == <<"\n">>

\* response.text of the generative service, before app.py:213 strips it
GenTexts ==
    { TitleLine(A) \o NL \o ReasonLine,
      TitleLine(AB) \o NL \o ReasonLine,
      TitleLine(<<"B">>) \o NL \o ReasonLine,
      TitleLine(<<"A", "B", "C">>) \o NL \o ReasonLine,
      TitleLine(<<"C">>) \o NL \o ReasonLine,
      ReasonLine,
      <<"H", "i">> \o NL \o TitleLine(A) \o NL \o ReasonLine,
      TITLE_MARKER \o NL \o ReasonLine,
      <<" ", "\n">> \o TitleLine(AB) \o NL \o ReasonLine \o NL,
      TitleLine(A) \o <<" ">> \o TitleLine(<<"B">>),
      <<>> }

\* what the generative service does: generate_content raises, response.text raises,
\* or a text comes back
GenOutcomes ==
    {[status |-> f, text |-> <<>>] : f \in {"api_error", "no_text"}}
    \cup {[status |-> "ok", text |-> t] : t \in GenTexts}

\* tokens of the texts handed to the parser on its own
ParseTokens == {TITLE_MARKER, REASON_MARKER, <<" ">>, <<"A">>, <<"\n">>, <<"\r">>}

RECURSIVE TokenSeqs(_)
TokenSeqs(n) ==
    IF n = 0 THEN {<<>>}
    ELSE TokenSeqs(n - 1) \cup {Append(q, t) : q \in TokenSeqs(n - 1), t \in ParseTokens}

ParseTexts == {Flatten(q) : q \in TokenSeqs(MaxTokens)}

-----------------------------------------------------------------------------
(* The run: run_recommendation_workflow (app.py:286-328) *)

\* the message fragments of app.py:178, 181, 216 and 324
WORKFLOW_ERROR == "o-ryu-ga bal-saeng-haet-seum-ni-da: "
SEARCH_REQUEST_ERROR == "al-la-din seo-beo-wa tong-sin jung o-ryu: "
SEARCH_PARSE_ERROR == "al-la-din seo-beo-ui eung-dap cheo-ri sil-pae: "
RECOMMENDATION_ERROR == "AI chu-cheon saeng-seong jung o-ryu: "

Fresh(p, q, text, lk) ==
    /\ pc = p
    /\ user_query = q
    /\ items_left = 0
    /\ book_list = <<>>
    /\ found_books = <<>>
    /\ gemini_result = text
    /\ recommended_title = None
    /\ recommended_book = None
    /\ matched_index = 0
    /\ outcome = "none"
    /\ exception = "none"
    /\ error_message = <<>>
    /\ shown_text = None
    /\ search_calls = 0
    /\ lookup_calls = 0
    /\ gemini_calls = 0
    /\ parse_calls = 0
    /\ match_calls = 0
    /\ lookup_response = lk
    /\ details = NotCalled
    /\ search_status = "none"
    /\ gemini_status = "none"

\* a query was submitted and run_recommendation_workflow entered
Init == \E q \in Queries : Fresh("search", q, None, NoLookup)

\* the run is over: the user was shown o, or exception e escaped the workflow
End(o, e, msg, text) ==
    /\ pc' = "done"
    /\ outcome' = o
    /\ exception' = e
    /\ error_message' = msg
    /\ shown_text' = text

\* the except clause of app.py:323
Caught == {"BookSearchError", "RecommendationError"}

\* An exception with message msg reaches the try statement of app.py:291-328:
\* app.py:324 shows a caught one; any other leaves the workflow.
Raise(e, msg) ==
    IF e \in Caught THEN End("Error", e, <<WORKFLOW_ERROR>> \o msg, None)
    ELSE End("Escaped", e, <<>>, None)

\* search_books_by_title without its except ET.ParseError clause
SearchFailureUnwrapped(f) ==
    IF f = "malformed_xml"
    THEN [exception |-> "ParseError", message |-> <<CauseOf(f)>>]
    ELSE [exception |-> "BookSearchError", message |-> <<SEARCH_REQUEST_ERROR, CauseOf(f)>>]

\* app.py:176-181: what search_books_by_title raises for a failed request
SearchFailure(f) ==
    [exception |-> "BookSearchError",
     message |-> <<IF f = "malformed_xml" THEN SEARCH_PARSE_ERROR ELSE SEARCH_REQUEST_ERROR,
                   CauseOf(f)>>]

\* app.py:214-216: what get_gemini_recommendation raises for a failed call
GeminiFailure(f) ==
    [exception |-> "RecommendationError", message |-> <<RECOMMENDATION_ERROR, CauseOf(f)>>]

\* the workflow without the return of app.py:296
EmptyResultGoesOn ==
    /\ pc' = "recommend"
    /\ UNCHANGED <<outcome, exception, error_message, shown_text, items_left>>

\* app.py:153-155 and 294-296: no item found, the run stops
EmptyResult ==
    /\ End("NoResults", "none", <<>>, Some(user_query))
    /\ UNCHANGED items_left

\* app.py:146-155 and 176-181, with app.py:293-296 of the caller: the search
\* request fails, or returns no item, or returns n items to iterate.
SearchRequest ==
    /\ pc = "search"
    /\ search_calls' = search_calls + 1
    /\ \/ \E f \in RequestFailures :
            /\ search_status' = f
            /\ Raise(SearchFailure(f).exception, SearchFailure(f).message)
            /\ UNCHANGED items_left
       \/ /\ search_status' = "ok"
          /\ EmptyResult
       \/ \E n \in 1..MaxItems :
            /\ search_status' = "ok"
            /\ items_left' = n
            /\ pc' = "items"
            /\ UNCHANGED <<outcome, exception, error_message, shown_text>>
    /\ UNCHANGED <<user_query, book_list, found_books, gemini_result, recommended_title,
                   recommended_book, matched_index, lookup_calls, gemini_calls,
                   parse_calls, match_calls, lookup_response, details, gemini_status>>

\* One iteration of app.py:158-172, and app.py:173-174 after the last one. An
\* exception of the loop body is neither RequestException nor ParseError: it
\* leaves search_books_by_title as it is.
SearchItems(Items, Lookups) ==
    /\ pc = "items"
    /\ \E item \in Items :
       \E lk \in (IF Truthy(TextOr(item.isbn13, None)) THEN Lookups ELSE {NoLookup}) :
         LET res == search_item(item, lk)
         IN  /\ lookup_response' = lk
             /\ details' = ItemDetails(item, lk)
             /\ lookup_calls' = lookup_calls + (IF lk = NoLookup THEN 0 ELSE 1)
             /\ IF res.raised # "none"
                THEN /\ Raise(res.raised, <<>>)
                     /\ UNCHANGED <<items_left, book_list, found_books>>
                ELSE /\ items_left' = items_left - 1
                     /\ IF items_left = 1
                        THEN /\ found_books' = Append(book_list, Val(res.value))
                             /\ book_list' = <<>>
                             /\ pc' = "recommend"
                        ELSE /\ book_list' = Append(book_list, Val(res.value))
                             /\ pc' = "items"
                             /\ UNCHANGED found_books
                     /\ UNCHANGED <<outcome, exception, error_message, shown_text>>
    /\ UNCHANGED <<user_query, gemini_result, recommended_title, recommended_book,
                   matched_index, search_calls, gemini_calls, parse_calls, match_calls,
                   search_status, gemini_status>>

\* get_gemini_recommendation (app.py:183-216) called at app.py:300: the call or
\* response.text raises, or the stripped text comes back.
Recommend ==
    /\ pc = "recommend"
    /\ gemini_calls' = gemini_calls + 1
    /\ \E g \in GenOutcomes :
         /\ gemini_status' = g.status
         /\ IF g.status # "ok"
            THEN /\ Raise(GeminiFailure(g.status).exception, GeminiFailure(g.status).message)
                 /\ UNCHANGED gemini_result
            ELSE /\ gemini_result' = Some(Strip(g.text))
                 /\ pc' = "parse"
                 /\ UNCHANGED <<outcome, exception, error_message, shown_text>>
    /\ UNCHANGED <<user_query, items_left, book_list, found_books, recommended_title,
                   recommended_book, matched_index, search_calls, lookup_calls,
                   parse_calls, match_calls, lookup_response, details, search_status>>

\* app.py:301
Parse ==
    /\ pc = "parse"
    /\ recommended_title' = parse_recommended_book_title(Val(gemini_result))
    /\ parse_calls' = parse_calls + 1
    /\ pc' = "match"
    /\ UNCHANGED <<user_query, items_left, book_list, found_books, gemini_result,
                   recommended_book, matched_index, outcome, exception, error_message,
                   shown_text, search_calls, lookup_calls, gemini_calls, match_calls,
                   lookup_response, details, search_status, gemini_status>>

\* app.py:305-321: the matching step, then the card (Resolved) or the raw text
\* (Unmatched). A TypeError of the loop is not caught.
Match ==
    /\ pc = "match"
    /\ match_calls' = match_calls + 1
    /\ LET res == match_book(recommended_title, found_books)
       IN  IF res.raised # "none"
           THEN /\ Raise(res.raised, <<>>)
                /\ UNCHANGED <<recommended_book, matched_index>>
           ELSE IF Val(res.value) = 0
           THEN /\ End("Unmatched", "none", <<>>, gemini_result)
                /\ UNCHANGED <<recommended_book, matched_index>>
           ELSE /\ matched_index' = Val(res.value)
                /\ recommended_book' = Some(found_books[Val(res.value)])
                /\ End("Resolved", "none", <<>>, Some(Rationale(Val(gemini_result))))
    /\ UNCHANGED <<user_query, items_left, book_list, found_books, gemini_result,
                   recommended_title, search_calls, lookup_calls, gemini_calls,
                   parse_calls, lookup_response, details, search_status, gemini_status>>

SearchWorkflowItems == SearchItems(WorkflowItems, WorkflowLookups)

Next == SearchRequest \/ SearchWorkflowItems \/ Recommend \/ Parse \/ Match

Spec == Init /\ [][Next]_vars

-----------------------------------------------------------------------------
(* search_books_by_title on its own, over every shape of item *)

SearchCatalogItems == SearchItems(CatalogItems, CatalogLookups)

NextSearch == SearchRequest \/ SearchCatalogItems

SpecSearch == Init /\ [][NextSearch]_vars

-----------------------------------------------------------------------------
(* get_book_detail on its own, over every lookup outcome *)

InitDetail == \E r \in LookupResponses : Fresh("lookup", <<>>, None, r)

\* one call of get_book_detail on the outcome of its request
DetailLookup ==
    /\ pc = "lookup"
    /\ details' = get_book_detail(lookup_response)
    /\ lookup_calls' = lookup_calls + 1
    /\ pc' = "done"
    /\ UNCHANGED <<user_query, items_left, book_list, found_books, gemini_result,
                   recommended_title, recommended_book, matched_index, outcome,
                   exception, error_message, shown_text, search_calls, gemini_calls,
                   parse_calls, match_calls, lookup_response, search_status,
                   gemini_status>>

SpecDetail == InitDetail /\ [][DetailLookup]_vars

-----------------------------------------------------------------------------
(* parse_recommended_book_title on its own, over every text of ParseTexts *)

InitParse == \E t \in ParseTexts : Fresh("parse", <<>>, Some(t), NoLookup)

SpecParse == InitParse /\ [][Parse]_vars

-----------------------------------------------------------------------------
(* Claims *)

\* C1: every run ends in Resolved, NoResults, Unmatched or Error, and no exception
\* other than BookSearchError and RecommendationError leaves the workflow.
C1_OnlyFourTerminalStates ==
    /\ pc = "done" => outcome \in {"Resolved", "NoResults", "Unmatched", "Error"}
    /\ exception \in {"none", "BookSearchError", "RecommendationError"}

\* C2: whatever the lookup request of get_book_detail does, the call returns a
\* rating or None and raises nothing, so the search goes on to the candidate.
C2_LookupNeverAborts ==
    lookup_response # NoLookup =>
        /\ details.raised = "none"
        /\ exception # "ValueError"

\* C3: the candidate the matching step selects, found_books[i], has a title that
\* contains the parsed title or is contained in it, and no candidate before it has.
C3_FirstMatchWins ==
    outcome = "Resolved" =>
        /\ matched_index \in 1..Len(found_books)
        /\ recommended_book = Some(found_books[matched_index])
        /\ recommended_title # None
        /\ LET T == Val(recommended_title)
               Either(i) == /\ found_books[i].title # None
                            /\ \/ Contains(T, Val(found_books[i].title))
                               \/ Contains(Val(found_books[i].title), T)
           IN  /\ Either(matched_index)
               /\ \A j \in 1..(matched_index - 1) : ~Either(j)

\* a run that resolved to the first of two different candidates that both qualify
C3_Witness ==
    /\ outcome = "Resolved"
    /\ matched_index = 1
    /\ Len(found_books) = 2
    /\ found_books[2].title # None
    /\ found_books[2].title # found_books[1].title
    /\ Qualifies(Val(recommended_title), found_books[2])

\* C4: the run ends Unmatched only when the parser returned None or no candidate
\* satisfies either containment; with a parsed title (the empty one included) and a
\* candidate that satisfies a containment, the run ends Resolved.
C4_UnmatchedOnlyWithoutCandidate ==
    (pc = "done" /\ match_calls = 1) =>
        LET some_qualifies ==
                /\ recommended_title # None
                /\ \E i \in 1..Len(found_books) :
                      /\ found_books[i].title # None
                      /\ \/ Contains(Val(recommended_title), Val(found_books[i].title))
                         \/ Contains(Val(found_books[i].title), Val(recommended_title))
        IN  /\ outcome = "Unmatched" => ~some_qualifies
            /\ some_qualifies => outcome = "Resolved"

\* C5: the parser returns None exactly when no line starts with the title marker,
\* and otherwise the first such line without its leading marker, trimmed, the rest
\* of the line unchanged.
C5_ParserReturnsTrimmedSuffix ==
    (pc = "match" /\ parse_calls = 1) =>
        LET lines == SplitLines(Val(gemini_result))
            marked == {i \in 1..Len(lines) : StartsWith(lines[i], TITLE_MARKER)}
            line == lines[SetMin(marked)]
        IN  recommended_title =
                IF marked = {} THEN None
                ELSE Some(Strip(SubSeq(line, Len(TITLE_MARKER) + 1, Len(line))))

C7_FailuresSurfaceAsError ==
    /\ search_status \in RequestFailures =>
          /\ exception = "BookSearchError"
          /\ outcome = "Error"
          /\ error_message # <<>>
          /\ error_message[Len(error_message)] = CauseOf(search_status)
    /\ gemini_status \in {"api_error", "no_text"} =>
          /\ exception = "RecommendationError"
          /\ outcome = "Error"
          /\ error_message # <<>>
          /\ error_message[Len(error_message)] = CauseOf(gemini_status)

\* a run whose search answered with a document that does not parse
C7_Witness ==
    /\ search_status = "malformed_xml"
    /\ outcome = "Error"
    /\ pc = "done"

C9_StarRatingPopulated ==
    LET books == book_list \o found_books
    IN  /\ \A i \in 1..Len(books) : books[i].star_rating # <<>>
        /\ (books # <<>> /\ pc \in {"items", "recommend"}) =>
              books[Len(books)].star_rating =
                  IF lookup_response # NoLookup /\ details.raised = "none"
                     /\ details.value # None
                  THEN Val(details.value)
                  ELSE SENTINEL

\* a search that returned a candidate whose lookup request failed
C9_Witness ==
    /\ pc = "recommend"
    /\ lookup_response.status = "network_error"
    /\ details = Returned(None)
    /\ found_books[Len(found_books)].star_rating = SENTINEL

\* C10: in a Resolved run the line the rationale leaves out is the title line the
\* parser matched, and the rationale shown is the text after that line without the
\* reason marker, so it does not contain the title line.
C10_RationaleDropsTitleLine ==
    outcome = "Resolved" =>
        LET lines == SplitLines(Val(gemini_result))
            k == SetMin({i \in 1..Len(lines) : StartsWith(lines[i], TITLE_MARKER)})
        IN  /\ k = 1
            /\ shown_text =
                  Some(Strip(Replace(Join(SubSeq(lines, k + 1, Len(lines)), <<"\n">>),
                                     REASON_MARKER, <<>>)))
            /\ ~Contains(lines[k], Val(shown_text))

====
